---- MODULE Spec2Model ----
(***************************************************************************)
(* A model of the eBay sold-listing scraper (src/src/scraper.py):          *)
(* EbayScraper.fetch_ebay_sold_items and the helpers it calls              *)
(* (is_valid_title, parse_price, parse_date, is_within_30_days,            *)
(* save_results_to_csv).                                                   *)
(*                                                                         *)
(* Text is a sequence of symbols.  A symbol is one character, except that  *)
(* in price text a word ("EUR", "bis", "Versand") is a single symbol: the  *)
(* code removes "EUR" whole and never looks inside another word.           *)
(* An optional value (Python's None or a value) is None or Some(v).        *)
(***************************************************************************)
EXTENDS Integers, Sequences, FiniteSets, TLC

None == <<>>

Some(v) == <<v>>

IsNone(o) == Len(o) = 0

Get(o) == o[1]

Digits == {"0", "1", "2", "3", "4", "5", "6", "7", "8", "9"}

IsDigit(c) == c \in Digits

DigitValue(c) ==
  CASE c = "0" -> 0 [] c = "1" -> 1 [] c = "2" -> 2 [] c = "3" -> 3
    [] c = "4" -> 4 [] c = "5" -> 5 [] c = "6" -> 6 [] c = "7" -> 7
    [] c = "8" -> 8 [] c = "9" -> 9

\* int() of a run of decimal digits
RECURSIVE ToInt(_)
ToInt(ds) ==
  IF ds = <<>> THEN 0
  ELSE 10 * ToInt(SubSeq(ds, 1, Len(ds) - 1)) + DigitValue(ds[Len(ds)])

RECURSIVE Pow10(_)
Pow10(n) == IF n <= 0 THEN 1 ELSE 10 * Pow10(n - 1)

\* all sequences over alphabet A of length 0..n
RECURSIVE SeqsUpTo(_, _)
SeqsUpTo(A, n) ==
  IF n = 0 THEN {<<>>}
  ELSE LET shorter == SeqsUpTo(A, n - 1)
       IN  shorter \cup {Append(s, a) : s \in {t \in shorter : Len(t) = n - 1}, a \in A}

\* length of the longest prefix of s whose symbols are all in set A
RECURSIVE PrefixLen(_, _)
PrefixLen(s, A) ==
  IF s = <<>> \/ Head(s) \notin A THEN 0 ELSE 1 + PrefixLen(Tail(s), A)

Drop(s, n) == SubSeq(s, n + 1, Len(s))

\* re.findall(r'\d+', s): the maximal digit runs of s, left to right
RECURSIVE FindAllDigitRuns(_)
FindAllDigitRuns(s) ==
  IF s = <<>> THEN <<>>
  ELSE IF ~IsDigit(Head(s)) THEN FindAllDigitRuns(Tail(s))
  ELSE LET n == PrefixLen(s, Digits)
       IN  <<SubSeq(s, 1, n)>> \o FindAllDigitRuns(Drop(s, n))

\* str.replace(old, new): leftmost non-overlapping occurrences, old non-empty
RECURSIVE ReplaceAll(_, _, _)
ReplaceAll(s, old, new) ==
  IF Len(s) < Len(old) THEN s
  ELSE IF SubSeq(s, 1, Len(old)) = old
       THEN new \o ReplaceAll(Drop(s, Len(old)), old, new)
       ELSE <<Head(s)>> \o ReplaceAll(Tail(s), old, new)

Whitespace == {" "}

\* str.strip()
RECURSIVE Strip(_)
Strip(s) ==
  IF s = <<>> THEN s
  ELSE IF Head(s) \in Whitespace THEN Strip(Tail(s))
  ELSE IF s[Len(s)] \in Whitespace THEN Strip(SubSeq(s, 1, Len(s) - 1))
  ELSE s

------------------------------------------------------------------------------
(* EbayScraper.is_valid_title                                              *)

\* a plausible slip: accept when the target occurs anywhere in the title
is_valid_title_substring(title, target_set) ==
  \E i \in 1..Len(title) :
     i + Len(target_set) - 1 <= Len(title)
     /\ SubSeq(title, i, i + Len(target_set) - 1) = target_set

\* a plausible slip: several numbers of the target's length are let through
\* when the target is among them
is_valid_title_any_number(title, target_set) ==
  LET numbers == FindAllDigitRuns(title)
  IN  \E i \in DOMAIN numbers : numbers[i] = target_set

is_valid_title(title, target_set) ==
  LET numbers == FindAllDigitRuns(title)
      target_length == Len(target_set)
      same_length_numbers ==
        SelectSeq(numbers, LAMBDA num : Len(num) = target_length)
  IN  IF Len(same_length_numbers) > 1 THEN FALSE
      ELSE IF Len(same_length_numbers) = 1
           THEN same_length_numbers[1] = target_set
           ELSE FALSE

------------------------------------------------------------------------------
(* EbayScraper.parse_price                                                 *)
(* An amount (a Python float) is an integer number of 1/AmountScale units. *)

MaxPriceLen == 4

AmountFracDigits == MaxPriceLen - 2

AmountScale == Pow10(AmountFracDigits)

\* a plausible slip: the pattern is r'\d+', which stops at the decimal mark
RegexFirstNumber_integer_only(s) ==
  LET skip == PrefixLen(s, {c \in {s[i] : i \in 1..Len(s)} : ~IsDigit(c)})
      rest == Drop(s, skip)
  IN  IF rest = <<>> THEN None
      ELSE Some([int |-> SubSeq(rest, 1, PrefixLen(rest, Digits)), frac |-> <<>>])

\* re.search(r'\d+[.,]?\d*', s).group(): None when s holds no digit
RegexFirstNumber(s) ==
  LET skip == PrefixLen(s, {c \in {s[i] : i \in 1..Len(s)} : ~IsDigit(c)})
      rest == Drop(s, skip)
      ilen == PrefixLen(rest, Digits)
      after == Drop(rest, ilen)
      hasSep == after # <<>> /\ Head(after) \in {".", ","}
      flen == IF hasSep THEN PrefixLen(Tail(after), Digits) ELSE 0
  IN  IF rest = <<>> THEN None
      ELSE Some([int |-> SubSeq(rest, 1, ilen),
                 frac |-> IF hasSep THEN SubSeq(after, 2, 1 + flen) ELSE <<>>])

\* float() of the matched token
ToAmount(m) ==
  ToInt(m.int) * AmountScale
    + ToInt(m.frac) * Pow10(AmountFracDigits - Len(m.frac))

parse_price(price_str) ==
  IF IsNone(price_str) \/ Get(price_str) = <<>> THEN 0
  ELSE LET stripped == Strip(ReplaceAll(ReplaceAll(Get(price_str), <<"EUR">>, <<>>),
                                        <<"€">>, <<>>))
           dotted == ReplaceAll(stripped, <<",">>, <<".">>)
           m == RegexFirstNumber(dotted)
       IN  IF IsNone(m) THEN 0 ELSE ToAmount(Get(m))

------------------------------------------------------------------------------
(* Calendar arithmetic of datetime (proleptic Gregorian).                  *)
(* A date is [year, month, day]; a datetime adds tod, the time of day in   *)
(* ticks 0..TicksPerDay-1.                                                 *)

TicksPerDay == 2

IsLeap(y) == (y % 4 = 0 /\ y % 100 # 0) \/ y % 400 = 0

DaysInMonth(y, m) ==
  IF m = 2 THEN (IF IsLeap(y) THEN 29 ELSE 28)
  ELSE IF m \in {4, 6, 9, 11} THEN 30 ELSE 31

IsValidDate(d) ==
  /\ d.month \in 1..12
  /\ d.day >= 1
  /\ d.day <= DaysInMonth(d.year, d.month)

\* date.toordinal() up to a constant offset
DaysFromCivil(d) ==
  LET y == IF d.month <= 2 THEN d.year - 1 ELSE d.year
      era == y \div 400
      yoe == y - era * 400
      mp == (d.month + 9) % 12
      doy == (153 * mp + 2) \div 5 + d.day - 1
      doe == yoe * 365 + yoe \div 4 - yoe \div 100 + doy
  IN  era * 146097 + doe

DateOf(dt) == [year |-> dt.year, month |-> dt.month, day |-> dt.day]

NextDay(d) ==
  IF d.day < DaysInMonth(d.year, d.month)
    THEN [d EXCEPT !.day = d.day + 1]
  ELSE IF d.month < 12
    THEN [d EXCEPT !.month = d.month + 1, !.day = 1]
  ELSE [year |-> d.year + 1, month |-> 1, day |-> 1]

\* (now - date).days, date being midnight of a calendar day
TimedeltaDays(now, date) ==
  ((DaysFromCivil(DateOf(now)) - DaysFromCivil(date)) * TicksPerDay + now.tod)
    \div TicksPerDay

------------------------------------------------------------------------------
(* EbayScraper.parse_date                                                  *)

\* german_to_english, in the dict's insertion order
GermanToEnglish ==
  <<<<<<"J", "a", "n">>, <<"J", "a", "n">>>>,
     <<<<"J", "ä", "n">>, <<"J", "a", "n">>>>,
     <<<<"J", "a", "n", "u", "a", "r">>, <<"J", "a", "n", "u", "a", "r", "y">>>>,
     <<<<"F", "e", "b">>, <<"F", "e", "b">>>>,
     <<<<"F", "e", "b", "r", "u", "a", "r">>, <<"F", "e", "b", "r", "u", "a", "r", "y">>>>,
     <<<<"M", "ä", "r">>, <<"M", "a", "r">>>>,
     <<<<"M", "ä", "r", "z">>, <<"M", "a", "r", "c", "h">>>>,
     <<<<"A", "p", "r">>, <<"A", "p", "r">>>>,
     <<<<"A", "p", "r", "i", "l">>, <<"A", "p", "r", "i", "l">>>>,
     <<<<"M", "a", "i">>, <<"M", "a", "y">>>>,
     <<<<"J", "u", "n">>, <<"J", "u", "n">>>>,
     <<<<"J", "u", "n", "i">>, <<"J", "u", "n", "e">>>>,
     <<<<"J", "u", "l">>, <<"J", "u", "l">>>>,
     <<<<"J", "u", "l", "i">>, <<"J", "u", "l", "y">>>>,
     <<<<"A", "u", "g">>, <<"A", "u", "g">>>>,
     <<<<"A", "u", "g", "u", "s", "t">>, <<"A", "u", "g", "u", "s", "t">>>>,
     <<<<"S", "e", "p">>, <<"S", "e", "p">>>>,
     <<<<"S", "e", "p", "t", "e", "m", "b", "e", "r">>, <<"S", "e", "p", "t", "e", "m", "b", "e", "r">>>>,
     <<<<"O", "k", "t">>, <<"O", "c", "t">>>>,
     <<<<"O", "k", "t", "o", "b", "e", "r">>, <<"O", "c", "t", "o", "b", "e", "r">>>>,
     <<<<"N", "o", "v">>, <<"N", "o", "v">>>>,
     <<<<"N", "o", "v", "e", "m", "b", "e", "r">>, <<"N", "o", "v", "e", "m", "b", "e", "r">>>>,
     <<<<"D", "e", "z">>, <<"D", "e", "c">>>>,
     <<<<"D", "e", "z", "e", "m", "b", "e", "r">>, <<"D", "e", "c", "e", "m", "b", "e", "r">>>>>>

\* the chain of str.replace calls that removes the German boilerplate, then strip()
RemoveBoilerplate(date_str) ==
  Strip(ReplaceAll(ReplaceAll(ReplaceAll(date_str,
          <<"V", "e", "r", "k", "a", "u", "f", "t">>, <<>>),
          <<"B", "e", "e", "n", "d", "e", "t", ":">>, <<>>),
          <<"a", "m">>, <<>>))

\* for german, english in german_to_english.items(): date_str = date_str.replace(...)
RECURSIVE ReplaceMonths(_, _)
ReplaceMonths(date_str, k) ==
  IF k > Len(GermanToEnglish) THEN date_str
  ELSE ReplaceMonths(ReplaceAll(date_str, GermanToEnglish[k][1], GermanToEnglish[k][2]),
                     k + 1)

(* dateutil's parser.parse(text, fuzzy=True), on the texts the marketplace  *)
(* shows: words and numbers separated by blanks, a "." only after a number *)
(* and before a blank or the end, every number a day (1..31) or a 4-digit  *)
(* year, no time of day.  Unknown words are skipped (fuzzy).               *)

Letters ==
  {"a", "b", "c", "d", "e", "f", "g", "h", "i", "j", "k", "l", "m", "n", "o",
   "p", "q", "r", "s", "t", "u", "v", "w", "x", "y", "z", "ä", "ö", "ü",
   "A", "B", "D", "E", "F", "J", "L", "M", "N", "O", "S", "V"}

ToLower(c) ==
  CASE c = "A" -> "a" [] c = "B" -> "b" [] c = "D" -> "d" [] c = "E" -> "e"
    [] c = "F" -> "f" [] c = "J" -> "j" [] c = "L" -> "l" [] c = "M" -> "m"
    [] c = "N" -> "n" [] c = "O" -> "o" [] c = "S" -> "s" [] c = "V" -> "v"
    [] OTHER -> c

\* parserinfo.MONTHS, lower-cased: entry m holds the names of month m
EnglishMonths ==
  <<{<<"j", "a", "n">>, <<"j", "a", "n", "u", "a", "r", "y">>},
     {<<"f", "e", "b">>, <<"f", "e", "b", "r", "u", "a", "r", "y">>},
     {<<"m", "a", "r">>, <<"m", "a", "r", "c", "h">>},
     {<<"a", "p", "r">>, <<"a", "p", "r", "i", "l">>},
     {<<"m", "a", "y">>},
     {<<"j", "u", "n">>, <<"j", "u", "n", "e">>},
     {<<"j", "u", "l">>, <<"j", "u", "l", "y">>},
     {<<"a", "u", "g">>, <<"a", "u", "g", "u", "s", "t">>},
     {<<"s", "e", "p">>, <<"s", "e", "p", "t">>, <<"s", "e", "p", "t", "e", "m", "b", "e", "r">>},
     {<<"o", "c", "t">>, <<"o", "c", "t", "o", "b", "e", "r">>},
     {<<"n", "o", "v">>, <<"n", "o", "v", "e", "m", "b", "e", "r">>},
     {<<"d", "e", "c">>, <<"d", "e", "c", "e", "m", "b", "e", "r">>}>>

\* parserinfo.month(word): the month number, or None
MonthOfWord(w) ==
  LET lw == [i \in 1..Len(w) |-> ToLower(w[i])]
      hits == {m \in 1..12 : lw \in EnglishMonths[m]}
  IN  IF hits = {} THEN None ELSE Some(CHOOSE m \in hits : TRUE)

\* the lexer: maximal runs of digits and of letters; everything else separates
RECURSIVE Tokenize(_)
Tokenize(s) ==
  IF s = <<>> THEN <<>>
  ELSE IF IsDigit(Head(s))
    THEN LET n == PrefixLen(s, Digits)
         IN  <<[kind |-> "num", text |-> SubSeq(s, 1, n)]>> \o Tokenize(Drop(s, n))
  ELSE IF Head(s) \in Letters
    THEN LET n == PrefixLen(s, Letters)
         IN  <<[kind |-> "word", text |-> SubSeq(s, 1, n)]>> \o Tokenize(Drop(s, n))
  ELSE Tokenize(Tail(s))

\* _ymd.append for each token in turn: Some(list of [val, label]), or None when
\* append raises ("Year is already set", "Month is already set")
RECURSIVE CollectYmd(_, _)
CollectYmd(tokens, ymd) ==
  IF tokens = <<>> THEN Some(ymd)
  ELSE LET t == Head(tokens)
           hasLabel(l) == \E i \in 1..Len(ymd) : ymd[i].label = l
       IN  IF t.kind = "num"
             THEN IF Len(t.text) > 2
                    THEN IF hasLabel("Y") THEN None
                         ELSE CollectYmd(Tail(tokens),
                                Append(ymd, [val |-> ToInt(t.text), label |-> "Y"]))
                    ELSE CollectYmd(Tail(tokens),
                           Append(ymd, [val |-> ToInt(t.text), label |-> "-"]))
           ELSE IF ~IsNone(MonthOfWord(t.text))
             THEN IF hasLabel("M") THEN None
                  ELSE CollectYmd(Tail(tokens),
                         Append(ymd, [val |-> Get(MonthOfWord(t.text)), label |-> "M"]))
           ELSE CollectYmd(Tail(tokens), ymd)

Ymd(y, m, d) == [year |-> y, month |-> m, day |-> d]

\* _ymd.resolve_ymd(yearfirst=False, dayfirst=False): Some of the optional year,
\* month and day, or None when it raises ("More than three YMD values")
ResolveYmd(ymd) ==
  LET n == Len(ymd)
      at(l) == IF \E i \in 1..n : ymd[i].label = l
               THEN CHOOSE i \in 1..n : ymd[i].label = l ELSE 0
      mi == at("M")
      yi == at("Y")
      nlab == (IF mi > 0 THEN 1 ELSE 0) + (IF yi > 0 THEN 1 ELSE 0)
      v(i) == ymd[i].val
      sv(i) == Some(ymd[i].val)
      rest == {i \in 1..n : i # mi /\ i # yi}
  IN  IF n = 0 THEN Some(Ymd(None, None, None))
      ELSE IF n > 3 THEN None
      ELSE IF n = nlab \/ (n = 3 /\ nlab = 2)
        THEN \* _resolve_from_stridxs
             Some(Ymd(IF yi > 0 THEN sv(yi) ELSE None,
                      IF mi > 0 THEN sv(mi) ELSE None,
                      IF rest = {} THEN None ELSE sv(CHOOSE i \in rest : TRUE)))
      ELSE IF n = 1 \/ (mi > 0 /\ n = 2)
        THEN LET other == IF mi > 0 THEN 3 - mi ELSE 1
                 month == IF mi > 0 THEN sv(mi) ELSE None
             IN  IF v(other) > 31 THEN Some(Ymd(sv(other), month, None))
                 ELSE Some(Ymd(None, month, sv(other)))
      ELSE IF n = 2
        THEN IF v(1) > 31 THEN Some(Ymd(sv(1), sv(2), None))
             ELSE IF v(2) > 31 THEN Some(Ymd(sv(2), sv(1), None))
             ELSE Some(Ymd(None, sv(1), sv(2)))
      ELSE \* n = 3
           IF mi = 1
             THEN IF v(2) > 31 THEN Some(Ymd(sv(2), sv(1), sv(3)))
                  ELSE Some(Ymd(sv(3), sv(1), sv(2)))
           ELSE IF mi = 2
             THEN IF v(1) > 31 THEN Some(Ymd(sv(1), sv(2), sv(3)))
                  ELSE Some(Ymd(sv(3), sv(2), sv(1)))
           ELSE IF mi = 3
             THEN IF v(2) > 31 THEN Some(Ymd(sv(2), sv(3), sv(1)))
                  ELSE Some(Ymd(sv(1), sv(3), sv(2)))
           ELSE IF v(1) > 31 \/ yi = 1 THEN Some(Ymd(sv(1), sv(2), sv(3)))
           ELSE IF v(1) > 12 THEN Some(Ymd(sv(3), sv(2), sv(1)))
           ELSE Some(Ymd(sv(3), sv(1), sv(2)))

\* parserinfo.convertyear: a year without century lands within 50 years of now
ConvertYear(year, century_specified, today) ==
  IF year < 100 /\ ~century_specified
    THEN LET y == year + (today.year \div 100) * 100
         IN  IF y >= today.year + 50 THEN y - 100
             ELSE IF y < today.year - 50 THEN y + 100
             ELSE y
    ELSE year

\* the resolved fields res with century_specified, or None when resolving raised
WithCentury(res, century) ==
  IF IsNone(res) THEN None
  ELSE Some([year |-> Get(res).year, month |-> Get(res).month, day |-> Get(res).day,
             century |-> century])

\* the fields of the collected values ymd, or None when collecting raised
FieldsOfYmd(ymd) ==
  IF IsNone(ymd) THEN None
  ELSE WithCentury(ResolveYmd(Get(ymd)),
                   \E i \in 1..Len(Get(ymd)) : Get(ymd)[i].label = "Y")

\* the part of parser.parse that reads the text: Some of the optional year, month
\* and day found and whether the year came with its century, or None when the
\* parser raises
ParseFields(text) == FieldsOfYmd(CollectYmd(Tokenize(text), <<>>))

\* the part of parser.parse that fills the fields not found from default = today:
\* Some(date), or None when it raises (no date in the text, or the fields do not
\* make a date)
BuildDate(fields, today) ==
  IF IsNone(fields) THEN None
  ELSE LET r == Get(fields)
       IN  IF IsNone(r.year) /\ IsNone(r.month) /\ IsNone(r.day) THEN None
           ELSE LET year == IF IsNone(r.year) THEN today.year
                            ELSE ConvertYear(Get(r.year), r.century, today)
                    month == IF IsNone(r.month) THEN today.month ELSE Get(r.month)
                    day == IF ~IsNone(r.day) THEN Get(r.day)
                           ELSE IF month \in 1..12
                                   /\ today.day > DaysInMonth(year, month)
                             THEN DaysInMonth(year, month)
                           ELSE today.day
                    date == Ymd(year, month, day)
                IN  IF IsValidDate(date) THEN Some(date) ELSE None

\* lines 131-138: the boilerplate removed and the month names replaced
CleanDateText(date_str) == ReplaceMonths(RemoveBoilerplate(date_str), 1)

\* the sold-date texts the marketplace shows
SoldRecent == <<"V", "e", "r", "k", "a", "u", "f", "t", " ", "2", "0", ".", " ", "M", "ä", "r", " ", "2", "0", "2", "4">>

SoldEdge == <<"V", "e", "r", "k", "a", "u", "f", "t", " ", "1", ".", " ", "M", "ä", "r", " ", "2", "0", "2", "4">>

SoldStale == <<"V", "e", "r", "k", "a", "u", "f", "t", " ", "2", "9", ".", " ", "F", "e", "b", " ", "2", "0", "2", "4">>

SoldUnparsable == <<"V", "e", "r", "k", "a", "u", "f", "t">>

\* ParseFields(CleanDateText(t)) for the marketplace's texts, computed once
DateFieldsOf(t) == [text |-> t, fields |-> ParseFields(CleanDateText(t))]

MarketDateFields ==
  <<DateFieldsOf(SoldRecent), DateFieldsOf(SoldEdge), DateFieldsOf(SoldStale),
    DateFieldsOf(SoldUnparsable)>>

\* parse_date: the 'YYYY-MM-DD' text is held as the date [year, month, day] it
\* spells; None when the text is absent, empty or not parsed
FieldsOfText(known, text) ==
  IF \E i \in DOMAIN known : known[i].text = text
    THEN known[CHOOSE i \in DOMAIN known : known[i].text = text].fields
    ELSE ParseFields(CleanDateText(text))

parse_date(date_str, now) ==
  IF IsNone(date_str) \/ Get(date_str) = <<>> THEN None
  ELSE BuildDate(FieldsOfText(MarketDateFields, Get(date_str)), DateOf(now))

------------------------------------------------------------------------------
(* EbayScraper.is_within_30_days                                           *)

WindowDays == 30

\* a plausible slip: the boundary day is excluded
WithinWindow_strict(date, now) ==
  IF IsNone(date) THEN None
  ELSE Some(TimedeltaDays(now, Get(date)) < WindowDays)

\* lines 154-160: parser.parse(... or '') reads the 'YYYY-MM-DD' text back and
\* raises (None) on ''; then days_diff <= 30
WithinWindow(date, now) ==
  IF IsNone(date) THEN None
  ELSE Some(TimedeltaDays(now, Get(date)) <= WindowDays)

\* Some(True/False), or None when it raises
is_within_30_days(date_str, now) ==
  IF IsNone(date_str) \/ Get(date_str) = <<>> THEN Some(TRUE)
  ELSE WithinWindow(parse_date(date_str, now), now)

------------------------------------------------------------------------------
(* The marketplace: the identifiers searched for and the listings a results *)
(* page can hold.  A listing is what the selectors of lines 237-297 find in *)
(* one li.s-item node: each field the element's text, or None when the      *)
(* element is missing.                                                      *)

Set75257 == <<"7", "5", "2", "5", "7">>

Set40632 == <<"4", "0", "6", "3", "2">>

TitleFor75257 == <<"L", "E", "G", "O", " ", "7", "5", "2", "5", "7">>

TitleFor40632 == <<"L", "E", "G", "O", " ", "4", "0", "6", "3", "2">>

ShopOnEbay == <<"S", "h", "o", "p", " ", "o", "n", " ", "e", "B", "a", "y">>

PriceText == <<"EUR", " ", "1", "0", ",", "5", "0">>

ShippingText == <<"+", "EUR", " ", "4", ",", "9", "9", " ", "Versand">>

Listing(title, date, price, shipping) ==
  [title |-> title, date |-> date, price |-> price, shipping |-> shipping,
   location |-> None, url |-> None]

Listings ==
  << [Listing(Some(TitleFor75257), Some(SoldRecent), Some(PriceText), Some(ShippingText))
       EXCEPT !.location = Some("Berlin"), !.url = Some("https://www.ebay.de/itm/1")],
    Listing(Some(TitleFor75257), None, Some(PriceText), Some(ShippingText)),
    Listing(Some(TitleFor75257), Some(SoldStale), Some(PriceText), None),
    Listing(Some(TitleFor75257), Some(SoldEdge), None, None),
    Listing(Some(TitleFor75257), Some(SoldUnparsable), Some(PriceText), None),
    Listing(Some(TitleFor40632), Some(SoldRecent), Some(PriceText), None),
    Listing(Some(ShopOnEbay), None, None, None),
    Listing(None, None, None, None) >>

Batches == { <<Set75257, Set40632>>, <<Set40632>> }

\* the listings the marketplace serves in one run, over all pages and identifiers
MaxListings == 4

\* the wall clock when the scraper is constructed: the last tick of 2024-03-31
StartNow == [year |-> 2024, month |-> 3, day |-> 31, tod |-> TicksPerDay - 1]

\* a run is followed until the wall clock has passed one midnight
Horizon == NextDay(DateOf(StartNow))

------------------------------------------------------------------------------
(* State                                                                   *)

VARIABLES
  pc,                  \* where fetch_ebay_sold_items stands
  now,                 \* datetime.now()
  driver,              \* self.driver: None or Some("chrome")
  set_numbers,         \* the argument of fetch_ebay_sold_items
  si,                  \* position of the for loop in set_numbers
  all_results,         \* dict: set number -> DataFrame (a sequence of rows)
  saved_files,         \* list of file paths
  files,               \* the data directory: file path -> rows written
  returned,            \* what the call returned, once it has
  set_results,         \* rows accepted for the current set number
  page, has_next_page, reached_old_items,
  idx,                 \* enumerate index of the last item processed
  old_items_count, valid_items_on_page,
  served,              \* listings the marketplace has served in this run
  src,                 \* history: the place in Listings each row of set_results came from
  last_outcome,        \* history: the last item was "valid", "old" or "skipped"
  page_old,            \* history: items of this page rejected as too old
  page_valid,          \* history: items of this page that passed the checks
  old_after_valid,     \* history: page_old counted from the page's first valid item
  fetched,             \* history: page numbers requested for this set number
  stop_cause,          \* history: why the page loop of this set number ended
  cutoffs,             \* history: the cutoff days the recency test has used in this call
  arg, ret,            \* input and result of a helper applied on its own
  app_pc,              \* app.py: where the /scrape handler stands
  request,             \* the tokens of request.form['set_numbers'].split()
  valid_numbers, invalid_numbers,
  threads,             \* one record per worker thread running scrape_set
  sessions,            \* the Chrome sessions created: open or quit, and the page shown
  stocked,             \* the search terms the marketplace has a matching listing for
  results_queue,       \* app.py: results_queue
  response,            \* the JSON the handler returned, once it has
  script,              \* None, or Some(the pages the marketplace serves, by page number)
  run,                 \* 1 in the first call of fetch_ebay_sold_items, 2 in a second one
  first_files,         \* history: the files the first call wrote
  handlers             \* one record per /scrape request being handled at the same time

pageHist == <<last_outcome, page_old, page_valid, old_after_valid>>

callVars == <<driver, set_numbers, si, all_results, saved_files, files, returned>>

loopVars == <<set_results, page, has_next_page, reached_old_items>>

pageVars == <<idx, old_items_count, valid_items_on_page>>

histVars == <<src, pageHist, fetched, stop_cause>>

helperVars == <<arg, ret>>

appVars == <<app_pc, request, valid_numbers, invalid_numbers, threads, sessions,
             stocked, results_queue, response, handlers>>

runVars == <<script, run, first_files>>

\* what fetch_ebay_sold_items leaves alone
otherVars == <<helperVars, appVars, runVars>>

scraperVars == <<pc, now, callVars, loopVars, pageVars, served, cutoffs, histVars>>

\* what a helper applied on its own leaves alone
programVars == <<scraperVars, appVars, runVars>>

vars == <<scraperVars, helperVars, appVars, runVars>>

\* EbayScraper.__init__: no driver yet; the call has not been made
ScraperInit ==
  /\ pc = "constructed"
  /\ now = StartNow
  /\ driver = None
  /\ set_numbers = <<>>
  /\ si = 0
  /\ all_results = <<>>
  /\ saved_files = <<>>
  /\ files = <<>>
  /\ returned = "pending"
  /\ set_results = <<>>
  /\ page = 1
  /\ has_next_page = TRUE
  /\ reached_old_items = FALSE
  /\ idx = 0
  /\ old_items_count = 0
  /\ valid_items_on_page = 0
  /\ served = 0
  /\ src = <<>>
  /\ last_outcome = "none"
  /\ page_old = 0
  /\ page_valid = 0
  /\ old_after_valid = 0
  /\ fetched = <<>>
  /\ stop_cause = "running"
  /\ cutoffs = {}

\* app.py, lines 8-12: the module's scraper and queue; no request yet
AppInit ==
  /\ app_pc = "idle"
  /\ request = <<>>
  /\ valid_numbers = <<>>
  /\ invalid_numbers = <<>>
  /\ threads = <<>>
  /\ sessions = <<>>
  /\ stocked = {}
  /\ results_queue = <<>>
  /\ response = None
  /\ handlers = <<>>

\* the marketplace is not bound to a script; no call has been made
MarketInit ==
  /\ script = None
  /\ run = 1
  /\ first_files = <<>>

Init ==
  /\ ScraperInit
  /\ AppInit
  /\ MarketInit
  /\ arg = <<>>
  /\ ret = <<>>

------------------------------------------------------------------------------
(* fetch_ebay_sold_items                                                   *)

\* lines 204 and 329: time.sleep(2); the wall clock advances between two pages
Tick ==
  /\ pc = "while"
  /\ DateOf(now) # Horizon
  /\ now' = IF now.tod + 1 < TicksPerDay
              THEN [now EXCEPT !.tod = now.tod + 1]
              ELSE LET d == NextDay(DateOf(now))
                   IN  [year |-> d.year, month |-> d.month, day |-> d.day, tod |-> 0]
  /\ UNCHANGED <<pc, callVars, loopVars, pageVars, served, cutoffs, histVars, otherVars>>

\* a plausible slip: set_results is created once, before the for loop
EnterSet_keeps_rows ==
  /\ set_results' = set_results
  /\ page' = 1
  /\ has_next_page' = TRUE
  /\ reached_old_items' = FALSE
  /\ src' = <<>>
  /\ last_outcome' = "none"
  /\ page_old' = 0
  /\ page_valid' = 0
  /\ old_after_valid' = 0
  /\ fetched' = <<>>
  /\ stop_cause' = "running"

\* lines 192-195: the locals of one set number, with the history of its pages
EnterSet ==
  /\ set_results' = <<>>
  /\ page' = 1
  /\ has_next_page' = TRUE
  /\ reached_old_items' = FALSE
  /\ src' = <<>>
  /\ last_outcome' = "none"
  /\ page_old' = 0
  /\ page_valid' = 0
  /\ old_after_valid' = 0
  /\ fetched' = <<>>
  /\ stop_cause' = "running"

\* lines 181-195: all_results = {}, driver = self.setup_driver(), saved_files = [],
\* and the for loop takes the first set number
Call ==
  /\ pc = "constructed"
  /\ \E batch \in Batches : set_numbers' = batch
  /\ driver' = Some("chrome")
  /\ all_results' = <<>>
  /\ saved_files' = <<>>
  /\ si' = 1
  /\ EnterSet
  /\ pc' = "while"
  /\ UNCHANGED <<now, files, returned, pageVars, served, cutoffs, otherVars>>

\* a plausible slip: the loop goes on although the page showed no next page
WhileCondition_ignores_next == ~reached_old_items

\* line 197: while has_next_page and not reached_old_items
WhileCondition == has_next_page /\ ~reached_old_items

\* the loop ends on its condition
WhileExit ==
  /\ pc = "while"
  /\ ~WhileCondition
  /\ pc' = "results"
  /\ stop_cause' = "no_next_page"
  /\ UNCHANGED <<now, callVars, loopVars, pageVars, served, cutoffs, src, pageHist,
                 fetched, otherVars>>

\* what driver.get(url) brings for page number p when the marketplace follows a
\* script: the script's page, and a page without items after its last one
ScriptPage(p) ==
  IF p \in DOMAIN Get(script) THEN Get(script)[p]
  ELSE [kind |-> "no_items", items |-> <<>>, next |-> FALSE]

\* the marketplace can answer the request for the current page this way
Serves(kind) == IF IsNone(script) THEN TRUE ELSE ScriptPage(page).kind = kind

\* the marketplace has another listing to serve: a script is not bounded
HasListing == IF IsNone(script) THEN served < MaxListings ELSE TRUE

\* line 225: whether the page shows a.pagination__next
NextChoices == IF IsNone(script) THEN BOOLEAN ELSE {ScriptPage(page).next}

\* line 218: the li.s-item the for loop takes next, as a key of Listings
ItemChoices ==
  IF IsNone(script) THEN DOMAIN Listings ELSE {ScriptPage(page).items[idx + 1]}

\* line 232: whether that li.s-item is the last one of the page
LastChoices ==
  IF IsNone(script) THEN BOOLEAN ELSE {idx + 1 = Len(ScriptPage(page).items)}

\* page numbers are followed up to PageCap, which no run of the bounded
\* marketplace reaches; a marketplace that goes on serving pages serves those
\* from PageCap on alike, and they are held as page PageCap
PageCap == MaxListings + 2

\* line 328: page += 1
NextPageNumber(p) == IF p < PageCap THEN p + 1 ELSE p

\* the history of requested pages, kept for the pages below PageCap
Requested(f, p) == IF Len(f) < PageCap THEN Append(f, p) ELSE f

\* a page request that ends the loop by break: driver.get raises (lines 333-335),
\* the wait for ul.srp-results times out (211-213), or no li.s-item (219-221)
FetchBreak(cause) ==
  /\ pc = "while"
  /\ WhileCondition
  /\ Serves(cause)
  /\ fetched' = Requested(fetched, page)
  /\ stop_cause' = cause
  /\ pc' = "results"
  /\ UNCHANGED <<now, callVars, loopVars, pageVars, served, cutoffs, src, pageHist,
                 otherVars>>

FetchError == FetchBreak("error")

FetchTimeout == FetchBreak("timeout")

FetchNoItems == FetchBreak("no_items")

\* lines 198-230: the page holds items; has_next_page and the counters are set
FetchItems ==
  /\ pc = "while"
  /\ WhileCondition
  /\ Serves("items")
  /\ HasListing
  /\ \E next \in NextChoices : has_next_page' = next
  /\ fetched' = Requested(fetched, page)
  /\ idx' = 0
  /\ old_items_count' = 0
  /\ valid_items_on_page' = 0
  /\ last_outcome' = "none"
  /\ page_old' = 0
  /\ page_valid' = 0
  /\ old_after_valid' = 0
  /\ pc' = "items"
  /\ UNCHANGED <<now, callVars, set_results, page, reached_old_items, served, cutoffs,
                 src, stop_cause, otherVars>>

\* lines 269-279: the recency check raises, rejects the item as old, or passes it
DateOutcome(within) ==
  IF IsNone(within) THEN "error"
  ELSE IF ~Get(within) THEN "old"
  ELSE "valid"

\* a plausible slip: the placeholder is skipped as the first item of every page
ItemOutcome_placeholder_on_every_page(item, set_number, i) ==
  IF IsNone(item.title) THEN "no_title"
  ELSE IF i = 1 /\ Strip(Get(item.title)) = ShopOnEbay THEN "placeholder"
  ELSE IF ~is_valid_title(Strip(Get(item.title)), set_number) THEN "invalid_title"
  ELSE DateOutcome(is_within_30_days(item.date, now))

\* lines 236-279: what the checks decide for item number i of the page
ItemOutcome(item, set_number, i) ==
  IF IsNone(item.title) THEN "no_title"
  ELSE IF page = 1 /\ i = 1 /\ Strip(Get(item.title)) = ShopOnEbay THEN "placeholder"
  ELSE IF ~is_valid_title(Strip(Get(item.title)), set_number) THEN "invalid_title"
  ELSE DateOutcome(is_within_30_days(item.date, now))

\* a plausible slip: the total leaves out the shipping fee
MakeResult_without_shipping(item, set_number) ==
  LET item_price == parse_price(item.price)
      shipping_cost == parse_price(item.shipping)
  IN  [Title |-> Strip(Get(item.title)),
       ItemPrice |-> item_price,
       ShippingFee |-> shipping_cost,
       TotalPrice |-> item_price,
       EndTime |-> parse_date(item.date, now),
       Currency |-> "EUR",
       Location |-> IF IsNone(item.location) THEN "Deutschland" ELSE Get(item.location),
       URL |-> item.url,
       SetNumber |-> set_number]

\* lines 281-315: the row built for an accepted item
MakeResult(item, set_number) ==
  LET item_price == parse_price(item.price)
      shipping_cost == parse_price(item.shipping)
  IN  [Title |-> Strip(Get(item.title)),
       ItemPrice |-> item_price,
       ShippingFee |-> shipping_cost,
       TotalPrice |-> item_price + shipping_cost,
       EndTime |-> parse_date(item.date, now),
       Currency |-> "EUR",
       Location |-> IF IsNone(item.location) THEN "Deutschland" ELSE Get(item.location),
       URL |-> item.url,
       SetNumber |-> set_number]

OldItemsLimit == 3

\* a plausible slip: three stale listings stop the run on a page without a valid one
EarlyStop_without_valid(old_count, valid_count) == old_count >= OldItemsLimit

\* line 273
EarlyStop(old_count, valid_count) == old_count >= OldItemsLimit /\ valid_count > 0

\* line 150: the date text is there and not empty
HasDateText(date_str) == ~IsNone(date_str) /\ Get(date_str) # <<>>

\* lines 158-160: the day number of the oldest sold date that passes
\* days_diff <= 30 when datetime.now() is t
CutoffDay(t) == DaysFromCivil(DateOf(t)) - WindowDays

\* lines 232-320: one iteration of the for loop over the page's items; the page
\* holds at least one item, and the marketplace decides whether another follows
ProcessItem ==
  /\ pc = "items"
  /\ HasListing
  /\ \E k \in ItemChoices :
     \E outcome \in {ItemOutcome(Listings[k], set_numbers[si], idx + 1)} :
       LET item == Listings[k]
           i == idx + 1
           stop == outcome = "old" /\ EarlyStop(old_items_count + 1, valid_items_on_page)
       IN  /\ idx' = i
           /\ served' = IF IsNone(script) THEN served + 1 ELSE served
           /\ last_outcome' = IF outcome \in {"old", "valid"} THEN outcome ELSE "skipped"
           /\ page_old' = IF outcome = "old" THEN page_old + 1 ELSE page_old
           /\ page_valid' = IF outcome = "valid" THEN page_valid + 1 ELSE page_valid
           /\ old_after_valid' = IF outcome = "old" /\ page_valid > 0
                                   THEN old_after_valid + 1 ELSE old_after_valid
           /\ old_items_count' = IF outcome = "old" THEN old_items_count + 1
                                 ELSE old_items_count
           /\ valid_items_on_page' = IF outcome = "valid" THEN valid_items_on_page + 1
                                     ELSE valid_items_on_page
           /\ reached_old_items' = (reached_old_items \/ stop)
           /\ set_results' = IF outcome = "valid"
                               THEN Append(set_results, MakeResult(item, set_numbers[si]))
                               ELSE set_results
           /\ src' = IF outcome = "valid" THEN Append(src, k) ELSE src
           /\ cutoffs' = IF outcome \in {"old", "valid"} /\ HasDateText(item.date)
                           THEN cutoffs \cup {CutoffDay(now)} ELSE cutoffs
           /\ \E last \in LastChoices :
                 pc' = IF stop \/ last \/ (IsNone(script) /\ served' = MaxListings)
                         THEN "page_end"
                       ELSE "items"
  /\ UNCHANGED <<now, callVars, page, has_next_page, fetched, stop_cause,
                 otherVars>>

\* lines 322-331: after the items of a page
EndPage ==
  /\ pc = "page_end"
  /\ IF reached_old_items
       THEN /\ pc' = "results"
            /\ stop_cause' = "early_stop"
            /\ page' = page
       ELSE /\ pc' = "while"
            /\ stop_cause' = stop_cause
            /\ page' = IF has_next_page THEN NextPageNumber(page) ELSE page
  /\ UNCHANGED <<now, callVars, set_results, has_next_page, reached_old_items,
                 pageVars, served, cutoffs, src, pageHist, fetched, otherVars>>

\* df.sort_values('End Time', ascending=False): row a goes before row b
SortsBefore(a, b) ==
  /\ ~IsNone(a.EndTime)
  /\ \/ IsNone(b.EndTime)
     \/ DaysFromCivil(Get(a.EndTime)) > DaysFromCivil(Get(b.EndTime))

\* the sort is stable: rows that compare equal keep their order of arrival
Precedes(rows, i, j) ==
  \/ SortsBefore(rows[i], rows[j])
  \/ ~SortsBefore(rows[j], rows[i]) /\ i < j

\* a plausible slip: the sorted frame is not assigned back to df
SortValues_not_assigned(rows) == rows

\* lines 340-347: the DataFrame of the rows, newest first, undated rows last
SortValues(rows) ==
  LET rank(i) == Cardinality({j \in DOMAIN rows : Precedes(rows, j, i)}) + 1
  IN  IF rows = <<>> THEN <<>>
      ELSE [k \in DOMAIN rows |-> rows[CHOOSE i \in DOMAIN rows : rank(i) = k]]

DatedRows(df) == {i \in 1..Len(df) : ~IsNone(df[i].EndTime)}

\* df['End Time'].min() / .max(): None is NaT
MinEndTime(df) ==
  IF DatedRows(df) = {} THEN None
  ELSE df[CHOOSE i \in DatedRows(df) : \A j \in DatedRows(df) :
            DaysFromCivil(Get(df[i].EndTime)) <= DaysFromCivil(Get(df[j].EndTime))].EndTime

MaxEndTime(df) ==
  IF DatedRows(df) = {} THEN None
  ELSE df[CHOOSE i \in DatedRows(df) : \A j \in DatedRows(df) :
            DaysFromCivil(Get(df[i].EndTime)) >= DaysFromCivil(Get(df[j].EndTime))].EndTime

\* a plausible slip: no test for an empty frame, which is written under a name
\* without dates
SaveOutcome_without_empty_test(df, set_number) ==
  IF df # <<>> /\ IsNone(MinEndTime(df)) THEN [kind |-> "raises"]
  ELSE [kind |-> "saved",
        filepath |-> [set_number |-> set_number,
                      start_date |-> MinEndTime(df),
                      end_date |-> MaxEndTime(df),
                      current_time |-> now.tod]]

\* lines 164-179: None for an empty frame, Some(file path) after writing,
\* "raises" when NaT.strftime raises because no row has a date
SaveOutcome(df, set_number) ==
  IF df = <<>> THEN [kind |-> "none"]
  ELSE IF IsNone(MinEndTime(df)) THEN [kind |-> "raises"]
  ELSE [kind |-> "saved",
        filepath |-> [set_number |-> set_number,
                      start_date |-> Get(MinEndTime(df)),
                      end_date |-> Get(MaxEndTime(df)),
                      current_time |-> now.tod]]

\* save_results_to_csv(df, set_number), df None or Some(frame): line 164 returns
\* None for df None as well
save_results_to_csv(df, set_number) ==
  IF IsNone(df) THEN [kind |-> "none"] ELSE SaveOutcome(Get(df), set_number)

\* dict assignment d[k] = v, the dict held as a sequence of [key, value]
RECURSIVE DictSet(_, _, _)
DictSet(d, k, v) ==
  IF d = <<>> THEN <<[key |-> k, value |-> v]>>
  ELSE IF Head(d).key = k THEN <<[key |-> k, value |-> v]>> \o Tail(d)
  ELSE <<Head(d)>> \o DictSet(Tail(d), k, v)

\* a plausible slip: the file is opened in append mode, so that rows written
\* under the same name before stay in it
to_csv_append(fs, filepath, df) ==
  LET old == {i \in DOMAIN fs : fs[i].key = filepath}
  IN  DictSet(fs, filepath,
              IF old = {} THEN df ELSE fs[CHOOSE i \in old : TRUE].value \o df)

\* line 177: df.to_csv(filepath, ...) writes the file anew, whatever it held
to_csv(fs, filepath, df) == DictSet(fs, filepath, df)

\* lines 365-376: close the browser and return
Return(results) ==
  /\ driver' = None
  /\ returned' = IF results = <<>> THEN "none" ELSE "results"

\* lines 337-376: sort, save and store the rows of the current set number; then
\* the for loop takes the next set number, or the call closes the browser and
\* returns; an exception of save_results_to_csv leaves the call at once
ProcessResults ==
  /\ pc = "results"
  /\ \E df \in {SortValues(set_results)} :
     \E saved \in {save_results_to_csv(Some(df), set_numbers[si])} :
         IF saved.kind = "raises"
           THEN /\ pc' = "raised"
                /\ returned' = "raised"
                /\ UNCHANGED <<driver, si, all_results, saved_files, files, loopVars,
                               histVars>>
           ELSE /\ IF saved.kind = "saved"
                     THEN /\ files' = to_csv(files, saved.filepath, df)
                          /\ saved_files' = Append(saved_files, saved.filepath)
                          /\ all_results' = DictSet(all_results, set_numbers[si], df)
                     ELSE UNCHANGED <<all_results, saved_files, files>>
                /\ IF si < Len(set_numbers)
                     THEN /\ si' = si + 1
                          /\ EnterSet
                          /\ pc' = "while"
                          /\ UNCHANGED <<driver, returned>>
                     ELSE /\ Return(all_results')
                          /\ pc' = "returned"
                          /\ UNCHANGED <<si, loopVars, histVars>>
  /\ UNCHANGED <<now, set_numbers, pageVars, served, cutoffs, otherVars>>

Next ==
  \/ Tick
  \/ Call
  \/ WhileExit
  \/ FetchError
  \/ FetchTimeout
  \/ FetchNoItems
  \/ FetchItems
  \/ ProcessItem
  \/ EndPage
  \/ ProcessResults

Spec == Init /\ [][Next]_vars

------------------------------------------------------------------------------
(* is_valid_title on its own: every title and target up to the bounds       *)

TitleChars == {"7", "5", "a"}

MaxTitleLen == 5

MaxTargetLen == 2

TitleInputs ==
  {[title |-> t, target_set |-> k] :
     t \in SeqsUpTo(TitleChars, MaxTitleLen), k \in SeqsUpTo(TitleChars, MaxTargetLen)}

TitleInit ==
  /\ ScraperInit
  /\ AppInit
  /\ MarketInit
  /\ arg \in TitleInputs
  /\ ret = <<>>

\* scraper.is_valid_title(title, target_set)
ApplyIsValidTitle ==
  /\ ret = <<>>
  /\ ret' = <<is_valid_title(arg.title, arg.target_set)>>
  /\ UNCHANGED <<programVars, arg>>

TitleNext == ApplyIsValidTitle

SpecTitle == TitleInit /\ [][TitleNext]_vars

\* the maximal digit runs of a title, each by its first and last position
MaximalDigitRuns(title) ==
  {r \in (1..Len(title)) \X (1..Len(title)) :
     /\ r[1] <= r[2]
     /\ \A i \in r[1]..r[2] : IsDigit(title[i])
     /\ (r[1] = 1 \/ ~IsDigit(title[r[1] - 1]))
     /\ (r[2] = Len(title) \/ ~IsDigit(title[r[2] + 1]))}

RunsOfLength(title, n) == {r \in MaximalDigitRuns(title) : r[2] - r[1] + 1 = n}

\* C1: is_valid_title(title, target) is true if and only if the title has exactly
\* one maximal digit run as long as the target and that run equals the target;
\* so it is false without a run of that length, when the one run of that length
\* differs, and when the target only occurs inside a longer run.
C1_ValidTitleIffOneRunEqual ==
  ret # <<>> =>
    ret[1] = (/\ Cardinality(RunsOfLength(arg.title, Len(arg.target_set))) = 1
              /\ \A r \in RunsOfLength(arg.title, Len(arg.target_set)) :
                    SubSeq(arg.title, r[1], r[2]) = arg.target_set)

\* the target 75 inside the longer run 775 has been rejected
C1_Witness ==
  /\ ret = <<FALSE>>
  /\ arg = [title |-> <<"a", "7", "7", "5">>, target_set |-> <<"7", "5">>]

------------------------------------------------------------------------------
(* is_within_30_days on its own: sold dates 0..MaxDaysBack days before now  *)

MaxDaysBack == 33

PrevDay(d) ==
  IF d.day > 1 THEN [d EXCEPT !.day = d.day - 1]
  ELSE IF d.month > 1
    THEN [d EXCEPT !.month = d.month - 1, !.day = DaysInMonth(d.year, d.month - 1)]
  ELSE [year |-> d.year - 1, month |-> 12, day |-> 31]

RECURSIVE DaysBefore(_, _)
DaysBefore(d, k) == IF k = 0 THEN d ELSE DaysBefore(PrevDay(d), k - 1)

DigitChar(k) == CHOOSE c \in Digits : DigitValue(c) = k

\* str() of a non-negative integer
RECURSIVE DigitsOf(_)
DigitsOf(n) ==
  IF n < 10 THEN <<DigitChar(n)>> ELSE Append(DigitsOf(n \div 10), DigitChar(n % 10))

\* the German month abbreviations of the table in parse_date
GermanAbbrev ==
  <<<<"J", "a", "n">>, <<"F", "e", "b">>, <<"M", "ä", "r">>, <<"A", "p", "r">>,
    <<"M", "a", "i">>, <<"J", "u", "n">>, <<"J", "u", "l">>, <<"A", "u", "g">>,
    <<"S", "e", "p">>, <<"O", "k", "t">>, <<"N", "o", "v">>, <<"D", "e", "z">>>>

\* the sold-date text of the marketplace for day d, as "Verkauft 20. Mär 2024"
FormatSold(d) ==
  <<"V", "e", "r", "k", "a", "u", "f", "t", " ">> \o DigitsOf(d.day) \o <<".", " ">>
    \o GermanAbbrev[d.month] \o <<" ">> \o DigitsOf(d.year)

\* the days on which the check is made: three in every month of a leap year
\* and of the year after it
RecencyDays ==
  {d \in {[year |-> y, month |-> m, day |-> n] :
            y \in {2024, 2025}, m \in 1..12, n \in {1, 15, 31}} : IsValidDate(d)}

RecencyInputs ==
  {[now |-> [year |-> d.year, month |-> d.month, day |-> d.day, tod |-> t],
    days_back |-> k,
    date_str |-> FormatSold(DaysBefore(d, k))] :
     d \in RecencyDays, t \in 0..(TicksPerDay - 1), k \in 0..MaxDaysBack}

RecencyInit ==
  /\ ScraperInit
  /\ AppInit
  /\ MarketInit
  /\ arg \in RecencyInputs
  /\ ret = <<>>

\* scraper.is_within_30_days(date_str) with datetime.now() = arg.now
ApplyIsWithin30Days ==
  /\ ret = <<>>
  /\ ret' = <<is_within_30_days(Some(arg.date_str), arg.now)>>
  /\ UNCHANGED <<programVars, arg>>

RecencyNext == ApplyIsWithin30Days

SpecRecency == RecencyInit /\ [][RecencyNext]_vars

\* C4: a dated record is accepted iff its sold date is at most 30 days before
\* now at day resolution: accepted at exactly 30 days, rejected at 31.
C4_AcceptedIffWithin30Days ==
  ret # <<>> => ret[1] = Some(arg.days_back <= 30)

\* a record sold exactly 30 days before now has been accepted late in the day
C4_Witness ==
  /\ ret = <<Some(TRUE)>>
  /\ arg.days_back = 30
  /\ arg.now.tod = TicksPerDay - 1

------------------------------------------------------------------------------
(* parse_price on its own: every price text up to the bound, and the texts  *)
(* of the marketplace                                                       *)

PriceSymbols == {"1", "0", ",", ".", "EUR", " ", "bis"}

PriceRange == <<"EUR", " ", "1", "0", " ", "bis", " ", "EUR", " ", "2", "0">>

\* price texts made of a currency marker, optional blanks around it, and an
\* amount with a decimal comma
MarkedAmounts ==
  LET digits == SeqsUpTo({"0", "1", "9"}, AmountFracDigits) \ {<<>>}
  IN  [marker : {"EUR", "€"}, lead : {<<>>, <<" ">>}, gap : {<<>>, <<" ">>},
       int : digits, frac : digits]

MarkedText(p) == p.lead \o <<p.marker>> \o p.gap \o p.int \o <<",">> \o p.frac

PriceInputs ==
  {None} \cup {Some(t) : t \in SeqsUpTo(PriceSymbols, MaxPriceLen)
                               \cup {PriceText, ShippingText, PriceRange}
                               \cup {MarkedText(p) : p \in MarkedAmounts}}

PriceInit ==
  /\ ScraperInit
  /\ AppInit
  /\ MarketInit
  /\ arg \in PriceInputs
  /\ ret = <<>>

\* scraper.parse_price(price_str)
ApplyParsePrice ==
  /\ ret = <<>>
  /\ ret' = <<parse_price(arg)>>
  /\ UNCHANGED <<programVars, arg>>

PriceNext == ApplyParsePrice

SpecPrice == PriceInit /\ [][PriceNext]_vars

HasAmount(t) == \E i \in DOMAIN t : IsDigit(t[i])

\* the text holds a range marker word between two amounts
IsRangeText(t) ==
  \E i \in DOMAIN t :
     /\ t[i] \in {"bis", "to"}
     /\ HasAmount(SubSeq(t, 1, i - 1))
     /\ HasAmount(SubSeq(t, i + 1, Len(t)))

\* C6: parse_price rejects as undetermined a price text with a range marker
\* word between two amounts, such as 'EUR 100 bis EUR 200': its result is the
\* value it gives when it finds no price, never the first amount of the range.
C6_RangeIsUndetermined ==
  (ret # <<>> /\ ~IsNone(arg) /\ IsRangeText(Get(arg))) => ret[1] = 0

------------------------------------------------------------------------------
(* Properties of fetch_ebay_sold_items                                     *)

\* the rows of set number k in a dict held as a sequence of [key, value]
Collections(d) == {d[e].value : e \in DOMAIN d}

RecordKey(row) == <<row.Title, row.ItemPrice, row.EndTime>>

\* C2: within one identifier's run, listings with the same (title, price,
\* soldDate) leave exactly one record in that identifier's final collection.
C2_NoDuplicateRecords ==
  \A df \in Collections(all_results) :
     \A i, j \in DOMAIN df : RecordKey(df[i]) = RecordKey(df[j]) => i = j

\* C3: every record of an identifier's accepted collection has a concrete sold
\* date; a listing without a resolvable sold date is never stored with a null
\* 'End Time'.
C3_EveryRecordDated ==
  \A i \in DOMAIN set_results : ~IsNone(set_results[i].EndTime)

\* the price text is there and holds a number
PriceDetermined(price) == ~IsNone(price) /\ HasAmount(Get(price))

\* C5: a listing whose price text is absent or unparsable never appears in the
\* accepted collection.
C5_NoRecordWithoutPrice ==
  \A i \in DOMAIN src : PriceDetermined(Listings[src[i]].price)

TotalIsSum(rows) ==
  \A i \in DOMAIN rows : rows[i].TotalPrice = rows[i].ItemPrice + rows[i].ShippingFee

\* C7: for every accepted record 'Total Price' = 'Item Price' + 'Shipping Fee',
\* also in the collection returned and in the collection written to the file.
C7_TotalIsItemPlusShipping ==
  /\ TotalIsSum(set_results)
  /\ \A df \in Collections(all_results) \cup Collections(files) : TotalIsSum(df)

\* a record with a price and a shipping fee has been written to a file
C7_Witness ==
  \E df \in Collections(files) :
     \E i \in DOMAIN df : df[i].ItemPrice > 0 /\ df[i].ShippingFee > 0

C9_PagesInOrder ==
  /\ [](\A i \in DOMAIN fetched : fetched[i] = i)
  /\ [][(Len(fetched') > Len(fetched) /\ fetched # <<>>) =>
          (has_next_page /\ ~reached_old_items)]_vars
  /\ []((pc = "while" /\ fetched # <<>> /\ has_next_page /\ ~reached_old_items)
          => page = Len(fetched) + 1)

\* page 2 has been fetched after page 1 and showed no next page
C9_Witness ==
  /\ fetched = <<1, 2>>
  /\ pc = "while"
  /\ ~has_next_page

\* every row of rows is in a file of set number k
Persisted(rows, k, fs) ==
  \A i \in DOMAIN rows :
     \E e \in DOMAIN fs :
        /\ fs[e].key.set_number = k
        /\ \E j \in DOMAIN fs[e].value : fs[e].value[j] = rows[i]

\* C10: when a page times out, holds no listing or raises, the identifier's
\* pagination ends at once, the records accepted on earlier pages stay in its
\* collection, and they are persisted.
C10_BreakKeepsAndPersists ==
  /\ [][(pc = "while" /\ pc' = "results") => set_results' = set_results]_vars
  /\ [][(pc = "results" /\ pc' # "results"
            /\ stop_cause \in {"timeout", "no_items", "error"})
          => Persisted(set_results, set_numbers[si], files')]_vars

\* the dict d has an entry for key k
HasKey(d, k) == \E e \in DOMAIN d : d[e].key = k

\* C11: in a batch of several identifiers, a failure while handling one
\* identifier (fetching, sorting or saving its file) never prevents the other
\* identifiers from being processed and having their results returned: when
\* the handling of an identifier fails, no identifier of the batch is left
\* unprocessed and no collection gathered for another identifier is lost.
C11_FailureLeavesSiblings ==
  pc = "raised" => (si = Len(set_numbers) /\ all_results = <<>>)

\* C12: a batch call does not raise and returns one outcome for every
\* identifier requested, also for an identifier without accepted records.
C12_OneOutcomePerIdentifier ==
  /\ returned # "raised"
  /\ returned = "results" =>
       \A i \in DOMAIN set_numbers : HasKey(all_results, set_numbers[i])

------------------------------------------------------------------------------
(* app.py: the /scrape handler and its worker threads.  Every worker calls  *)
(* fetch_ebay_sold_items of the module's one scraper; a step of a worker is *)
(* the code between two uses of what the workers share: scraper.driver, the *)
(* Chrome sessions, the data directory and results_queue.  The page of a    *)
(* search term the marketplace has stocked holds one listing, titled 'LEGO  *)
(* <term>' and sold recently; the page of any other term holds none that    *)
(* passes the title test.                                                   *)

TokShort == <<"1", "2", "3">>

TokAlpha == <<"7", "5", "a", "5", "7">>

Tokens == {Set75257, Set40632, TokShort, TokAlpha}

\* the tokens of one request
MaxTokens == 2

Requests == SeqsUpTo(Tokens, MaxTokens)

\* the pages the marketplace has for one search
MaxAppPages == 1

\* what the marketplace can have in stock when the request comes
StockChoices == SUBSET {<<"5">>, <<"0">>}

\* app.py, lines 14-16: re.match(r'^\d{4,6}$', number.strip())
validate_set_number(number) ==
  LET s == Strip(number)
      n == PrefixLen(s, Digits)
  IN  n >= 4 /\ n <= 6 /\ n = Len(s)

IsInvalidNumber(number) == ~validate_set_number(number)

\* line 198 of scraper.py: the search term and the page number of the URL
Url(term, p) == [nkw |-> term, pgn |-> p]

\* threading.Thread(target=scrape_set, args=(number,)), and the locals of the
\* call of fetch_ebay_sold_items it makes; requested, parsed and terms are
\* history: the URL last loaded, the URL of the page last parsed, the search
\* terms of the pages loaded
NewThread(number) ==
  [set_number |-> number, pc |-> "start", driver |-> None, ci |-> 0, page |-> 1,
   nrows |-> 0, keys |-> {}, saved |-> <<>>,
   requested |-> None, parsed |-> None, terms |-> {}]

\* what no step of app.py touches
appFrame == <<pc, now, set_numbers, si, all_results, saved_files, returned,
              loopVars, pageVars, served, cutoffs, histVars, helperVars, runVars,
              handlers>>

\* app.py, lines 67-96: validate the tokens; answer at once when none is valid,
\* else empty the queue and start one thread per valid number
Scrape ==
  /\ app_pc = "idle"
  /\ \E stock \in StockChoices : stocked' = stock
  /\ \E tokens \in Requests :
       LET valid == SelectSeq(tokens, validate_set_number)
           invalid == SelectSeq(tokens, IsInvalidNumber)
       IN  /\ request' = tokens
           /\ valid_numbers' = valid
           /\ invalid_numbers' = invalid
           /\ IF valid = <<>>
                THEN /\ response' = Some([status |-> "error", results |-> <<>>,
                                          invalid_numbers |-> invalid])
                     /\ app_pc' = "responded"
                     /\ UNCHANGED <<threads, results_queue>>
                ELSE /\ results_queue' = <<>>
                     /\ threads' = [i \in DOMAIN valid |-> NewThread(valid[i])]
                     /\ app_pc' = "joining"
                     /\ UNCHANGED response
  /\ UNCHANGED <<driver, sessions, files, appFrame>>

\* scraper.py, lines 187-195 with set_numbers the str that scrape_set passes
\* (app.py, line 22): the for loop takes the next character of the string, or
\* ends
Advance(th) ==
  IF th.ci < Len(th.set_number)
    THEN [th EXCEPT !.ci = th.ci + 1, !.page = 1, !.nrows = 0, !.pc = "get"]
    ELSE [th EXCEPT !.pc = "close"]

\* the set number the for loop of worker th is at: a string of one character
SetNumberOf(th) == <<th.set_number[th.ci]>>

\* setup_driver, line 51: if self.driver is None
SetupCheck(t) ==
  /\ app_pc = "joining"
  /\ threads[t].pc = "start"
  /\ threads' = [threads EXCEPT ![t].pc = IF IsNone(driver) THEN "create"
                                          ELSE "return_driver"]
  /\ UNCHANGED <<app_pc, request, valid_numbers, invalid_numbers, stocked, sessions,
                 results_queue, response, driver, files, appFrame>>

\* setup_driver, lines 52-53: self.driver = webdriver.Chrome(...)
SetupCreate(t) ==
  /\ app_pc = "joining"
  /\ threads[t].pc = "create"
  /\ sessions' = Append(sessions, [open |-> TRUE, url |-> None])
  /\ driver' = Some(Len(sessions) + 1)
  /\ threads' = [threads EXCEPT ![t].pc = "return_driver"]
  /\ UNCHANGED <<app_pc, request, valid_numbers, invalid_numbers, stocked, results_queue,
                 response, files, appFrame>>

\* setup_driver, line 54, and scraper.py, line 184: driver = self.driver as it is
\* now; then the for loop starts
SetupReturn(t) ==
  /\ app_pc = "joining"
  /\ threads[t].pc = "return_driver"
  /\ threads' = [threads EXCEPT ![t] = Advance([threads[t] EXCEPT !.driver = driver])]
  /\ UNCHANGED <<app_pc, request, valid_numbers, invalid_numbers, stocked, sessions,
                 results_queue, response, driver, files, appFrame>>

\* the worker's driver is a session that has not been quit
Usable(d) == ~IsNone(d) /\ sessions[d[1]].open

\* scraper.py, lines 198-203: driver.get(url); without a usable session it raises,
\* and lines 333-335 break the loop
DriverGet(t) ==
  /\ app_pc = "joining"
  /\ threads[t].pc = "get"
  /\ LET th == threads[t]
         url == Url(SetNumberOf(th), th.page)
     IN  IF Usable(th.driver)
           THEN /\ sessions' = [sessions EXCEPT ![th.driver[1]].url = Some(url)]
                /\ threads' = [threads EXCEPT ![t] =
                                 [th EXCEPT !.pc = "source", !.requested = Some(url),
                                            !.terms = @ \cup {url.nkw}]]
           ELSE /\ threads' = [threads EXCEPT ![t].pc = "results"]
                /\ UNCHANGED sessions
  /\ UNCHANGED <<app_pc, request, valid_numbers, invalid_numbers, stocked, results_queue,
                 response, driver, files, appFrame>>

\* the listing of the marketplace that matches set_number
AppListing(set_number) ==
  Listing(Some(<<"L", "E", "G", "O", " ">> \o set_number), Some(SoldRecent),
          Some(PriceText), None)

\* set_results of a worker that has accepted n listings for set_number
AppRows(set_number, n) == [i \in 1..n |-> MakeResult(AppListing(set_number), set_number)]

\* the rows a worker at set_number accepts from the page of URL shown: the
\* listing of a stocked term, when its title passes is_valid_title
RowsOn(shown, set_number) ==
  IF shown.nkw \in stocked
       /\ is_valid_title(Strip(Get(AppListing(shown.nkw).title)), set_number)
    THEN 1 ELSE 0

\* scraper.py, lines 204-331: wait, read driver.page_source, go through its
\* items; the page read is the one the session shows now.  The loop goes on to
\* the next page or ends (no next page, early stop, time-out, no items); a
\* session quit meanwhile raises and the loop breaks
PageSource(t) ==
  /\ app_pc = "joining"
  /\ threads[t].pc = "source"
  /\ LET th == threads[t]
     IN  IF Usable(th.driver)
           THEN \E rows \in {RowsOn(Get(sessions[th.driver[1]].url), SetNumberOf(th))} :
                \E more \in IF th.page < MaxAppPages THEN BOOLEAN ELSE {FALSE} :
                   threads' = [threads EXCEPT ![t] =
                     [th EXCEPT !.parsed = sessions[th.driver[1]].url,
                                !.nrows = th.nrows + rows,
                                !.page = IF more THEN th.page + 1 ELSE th.page,
                                !.pc = IF more THEN "get" ELSE "results"]]
           ELSE threads' = [threads EXCEPT ![t].pc = "results"]
  /\ UNCHANGED <<app_pc, request, valid_numbers, invalid_numbers, stocked, sessions,
                 results_queue, response, driver, files, appFrame>>

\* scraper.py, lines 337-363 and 187: sort, save and store the rows of the set
\* number, then on to the next one
WorkerResults(t) ==
  /\ app_pc = "joining"
  /\ threads[t].pc = "results"
  /\ LET th == threads[t]
     IN  IF th.nrows > 0
           THEN \E df \in {SortValues(AppRows(SetNumberOf(th), th.nrows))} :
                \E saved \in {save_results_to_csv(Some(df), SetNumberOf(th))} :
                   /\ files' = DictSet(files, saved.filepath, df)
                   /\ threads' = [threads EXCEPT ![t] =
                        Advance([th EXCEPT !.keys = @ \cup {SetNumberOf(th)},
                                           !.saved = Append(@, saved.filepath)])]
           ELSE /\ threads' = [threads EXCEPT ![t] = Advance(th)]
                /\ UNCHANGED files
  /\ UNCHANGED <<app_pc, request, valid_numbers, invalid_numbers, stocked, sessions,
                 results_queue, response, driver, appFrame>>

\* close_driver, line 58: if self.driver
CloseCheck(t) ==
  /\ app_pc = "joining"
  /\ threads[t].pc = "close"
  /\ threads' = [threads EXCEPT ![t].pc = IF IsNone(driver) THEN "return" ELSE "quit"]
  /\ UNCHANGED <<app_pc, request, valid_numbers, invalid_numbers, stocked, sessions,
                 results_queue, response, driver, files, appFrame>>

\* close_driver, lines 59-60: self.driver.quit(); self.driver = None.  When
\* another worker has set self.driver to None meanwhile, None.quit() raises
CloseQuit(t) ==
  /\ app_pc = "joining"
  /\ threads[t].pc = "quit"
  /\ IF IsNone(driver)
       THEN /\ threads' = [threads EXCEPT ![t].pc = "raised"]
            /\ UNCHANGED <<sessions, driver>>
       ELSE /\ sessions' = [sessions EXCEPT ![driver[1]].open = FALSE]
            /\ driver' = None
            /\ threads' = [threads EXCEPT ![t].pc = "return"]
  /\ UNCHANGED <<app_pc, request, valid_numbers, invalid_numbers, stocked, results_queue,
                 response, files, appFrame>>

\* app.py, lines 22-61: what scrape_set reports.  fetch_ebay_sold_items returns
\* (None, None) or a dict and a list; a dict has no attribute 'empty', so line 24
\* raises for it and lines 52-61 report an error, as they do when the call raised
ScrapeSetStatus(th) ==
  IF th.pc = "raised" THEN "error"
  ELSE IF th.keys = {} THEN "no_results"
  ELSE "error"

\* scraper.py, lines 368-376, and app.py, lines 24-61: the call returns and
\* scrape_set puts its outcome in the queue
ScrapeSetPut(t) ==
  /\ app_pc = "joining"
  /\ threads[t].pc \in {"return", "raised"}
  /\ results_queue' = Append(results_queue,
                             [set_number |-> threads[t].set_number,
                              status |-> ScrapeSetStatus(threads[t]),
                              filepath |-> None, total_items |-> 0])
  /\ threads' = [threads EXCEPT ![t].pc = "done"]
  /\ UNCHANGED <<app_pc, request, valid_numbers, invalid_numbers, stocked, sessions,
                 response, driver, files, appFrame>>

\* app.py, lines 98-113: all threads joined; the outcomes in the queue and the
\* invalid numbers are returned
Respond ==
  /\ app_pc = "joining"
  /\ \A t \in DOMAIN threads : threads[t].pc = "done"
  /\ response' = Some([status |-> "success", results |-> results_queue,
                       invalid_numbers |-> invalid_numbers])
  /\ results_queue' = <<>>
  /\ app_pc' = "responded"
  /\ UNCHANGED <<request, valid_numbers, invalid_numbers, threads, sessions,
                 stocked, driver, files, appFrame>>

AppNext ==
  \/ Scrape
  \/ \E t \in DOMAIN threads : SetupCheck(t)
  \/ \E t \in DOMAIN threads : SetupCreate(t)
  \/ \E t \in DOMAIN threads : SetupReturn(t)
  \/ \E t \in DOMAIN threads : DriverGet(t)
  \/ \E t \in DOMAIN threads : PageSource(t)
  \/ \E t \in DOMAIN threads : WorkerResults(t)
  \/ \E t \in DOMAIN threads : CloseCheck(t)
  \/ \E t \in DOMAIN threads : CloseQuit(t)
  \/ \E t \in DOMAIN threads : ScrapeSetPut(t)
  \/ Respond

SpecApp == Init /\ [][AppNext]_vars

------------------------------------------------------------------------------
(* Properties of the /scrape handler                                       *)

\* the digit-string shape of a set number: four to six characters, all digits
IsSetNumberShape(number) ==
  Len(number) \in 4..6 /\ \A i \in DOMAIN number : number[i] \in Digits

HasWorker(number) == \E t \in DOMAIN threads : threads[t].set_number = number

\* a page of the search for number has been loaded by a worker started for it
Scraped(number) ==
  \E t \in DOMAIN threads :
     threads[t].set_number = number /\ number \in threads[t].terms

\* C13: an identifier that fails the shape test is never fetched: no worker is
\* started for it and no page of a search for it is requested; it is reported
\* in a list apart from the fetch outcomes; and the valid identifiers of the
\* same request are still scraped.
C13_InvalidRejectedValidScraped ==
  /\ \A i \in DOMAIN request :
       ~IsSetNumberShape(request[i]) =>
          /\ ~HasWorker(request[i])
          /\ \A t \in DOMAIN threads : request[i] \notin threads[t].terms
  /\ ~IsNone(response) =>
       /\ \A i \in DOMAIN request :
            ~IsSetNumberShape(request[i]) <=>
               \E j \in DOMAIN response[1].invalid_numbers :
                  response[1].invalid_numbers[j] = request[i]
       /\ \A e \in DOMAIN response[1].results :
            IsSetNumberShape(response[1].results[e].set_number)
       /\ \A i \in DOMAIN request :
            IsSetNumberShape(request[i]) => Scraped(request[i])

\* worker t is between its first page request and the end of its last search
InUse(t) == threads[t].pc \in {"get", "source", "results"}

\* C14: each worker has its own browser session: no two workers at work hold
\* the same session, no session is closed while a worker still uses it, and
\* the page a worker parses is the page that worker requested.
C14_OwnSession ==
  /\ \A t, u \in DOMAIN threads :
       (t # u /\ InUse(t) /\ InUse(u)) =>
          (IsNone(threads[t].driver) \/ threads[t].driver # threads[u].driver)
  /\ \A t \in DOMAIN threads : InUse(t) => Usable(threads[t].driver)
  /\ \A t \in DOMAIN threads :
       IsNone(threads[t].parsed) \/ threads[t].parsed = threads[t].requested

------------------------------------------------------------------------------
(* Properties of the recency window within one call                        *)

\* C15: all recency decisions of one run compare against one cutoff date,
\* computed once at run start: the cutoff used for the last listing of the
\* last page is the one used for the first listing of page 1, although the
\* wall clock advances during the run.
C15_OneCutoffPerRun == Cardinality(cutoffs) <= 1

------------------------------------------------------------------------------
(* parse_date on its own: sold-date texts with and without a year           *)

\* the sold-date text for day d without its year, as "Verkauft 20. Dez"
FormatSoldNoYear(d) ==
  <<"V", "e", "r", "k", "a", "u", "f", "t", " ">> \o DigitsOf(d.day) \o <<".", " ">>
    \o GermanAbbrev[d.month]

\* the days a text names: three in every month
SoldDays ==
  {[year |-> 2024, month |-> m, day |-> n] : m \in 1..12, n \in {1, 15, 28}}

\* the days on which parse_date is called
ParseDays ==
  {[year |-> 2024, month |-> 3, day |-> 31], [year |-> 2024, month |-> 7, day |-> 15],
   [year |-> 2025, month |-> 1, day |-> 1]}

ParseDateInputs ==
  {[now |-> [year |-> d.year, month |-> d.month, day |-> d.day, tod |-> t],
    date_str |-> text] :
     d \in ParseDays, t \in 0..(TicksPerDay - 1),
     text \in {FormatSoldNoYear(sold) : sold \in SoldDays}
                \cup {FormatSold(sold) : sold \in SoldDays}}

ParseDateInit ==
  /\ ScraperInit
  /\ AppInit
  /\ MarketInit
  /\ arg \in ParseDateInputs
  /\ ret = <<>>

\* scraper.parse_date(date_str) with datetime.now() = arg.now
ApplyParseDate ==
  /\ ret = <<>>
  /\ ret' = <<parse_date(Some(arg.date_str), arg.now)>>
  /\ UNCHANGED <<programVars, arg>>

ParseDateNext == ApplyParseDate

SpecParseDate == ParseDateInit /\ [][ParseDateNext]_vars

\* C16: parse_date never yields a date later than now: when the month and day
\* of a text without a year would fall in the future, the year is rolled back
\* by one.
C16_NeverInTheFuture ==
  (ret # <<>> /\ ~IsNone(ret[1])) =>
     DaysFromCivil(Get(ret[1])) <= DaysFromCivil(DateOf(arg.now))

------------------------------------------------------------------------------
(* Properties of the processing step, lines 337-363                        *)

\* the days of the dated rows
SoldDaysOf(rows) == {DaysFromCivil(Get(rows[i].EndTime)) : i \in DatedRows(rows)}

\* the file path names set number k and the first and last sold day of rows
NamedBySpan(path, rows, k) ==
  /\ path.set_number = k
  /\ DaysFromCivil(path.start_date) \in SoldDaysOf(rows)
  /\ DaysFromCivil(path.end_date) \in SoldDaysOf(rows)
  /\ \A d \in SoldDaysOf(rows) :
        DaysFromCivil(path.start_date) <= d /\ d <= DaysFromCivil(path.end_date)

\* C17: the file written for an identifier is named with the identifier and
\* the earliest and latest sold date of its collection; when no record has a
\* date the name carries a generation timestamp instead and the save still
\* succeeds.
C17_FileNamedBySpan ==
  [][(pc = "results" /\ set_results # <<>>) =>
       /\ pc' # "raised"
       /\ Len(saved_files') = Len(saved_files) + 1
       /\ LET path == saved_files'[Len(saved_files')]
          IN  /\ HasKey(files', path)
              /\ path.set_number = set_numbers[si]
              /\ DatedRows(set_results) # {} =>
                    NamedBySpan(path, set_results, set_numbers[si])]_vars

\* row a is sold before row b
SoldBefore(a, b) ==
  /\ ~IsNone(a.EndTime)
  /\ ~IsNone(b.EndTime)
  /\ DaysFromCivil(Get(a.EndTime)) < DaysFromCivil(Get(b.EndTime))

\* no row is sold before the row after it, and no undated row stands before a
\* dated one
Descending(df) ==
  \A i \in 1..(Len(df) - 1) :
     ~SoldBefore(df[i], df[i + 1]) /\ (IsNone(df[i].EndTime) => IsNone(df[i + 1].EndTime))

Occurrences(rows, r) == Cardinality({i \in DOMAIN rows : rows[i] = r})

IsPermutation(a, b) ==
  /\ Len(a) = Len(b)
  /\ \A i \in DOMAIN a : Occurrences(a, a[i]) = Occurrences(b, a[i])

\* the value of key k in the dict d
ValueOf(d, k) == d[CHOOSE e \in DOMAIN d : d[e].key = k].value

\* C18: the collection persisted and returned for an identifier is ordered by
\* sold date descending (no row is sold before the row that follows it) and
\* its rows are a permutation of the accepted records.
C18_SortedDescending ==
  /\ [](\A df \in Collections(all_results) \cup Collections(files) : Descending(df))
  /\ [][(pc = "results" /\ set_results # <<>> /\ pc' # "raised") =>
          /\ IsPermutation(ValueOf(all_results', set_numbers[si]), set_results)
          /\ IsPermutation(ValueOf(files', saved_files'[Len(saved_files')]),
                           set_results)]_vars

\* a collection with rows of different sold dates has been written to its file
\* and stored for the return, the newest row first
C18_Witness ==
  \E df \in Collections(files) \cap Collections(all_results) :
     \E i \in 1..(Len(df) - 1) : SoldBefore(df[i + 1], df[i])

\* C19: saving an empty or missing collection is a no-op: no file path comes
\* back and no file is created or changed; an identifier with zero accepted
\* records adds no entry to the list of saved files.
C19_EmptySaveIsNoOp ==
  /\ [](\A i \in DOMAIN set_numbers :
          /\ save_results_to_csv(None, set_numbers[i]).kind = "none"
          /\ save_results_to_csv(Some(<<>>), set_numbers[i]).kind = "none")
  /\ [][(pc = "results" /\ set_results = <<>>) =>
          (files' = files /\ saved_files' = saved_files /\ pc' # "raised")]_vars

\* an identifier without accepted records has been processed after one whose
\* file was written
C19_Witness ==
  /\ pc = "returned"
  /\ set_results = <<>>
  /\ Len(saved_files) = 1
  /\ stop_cause \in {"no_next_page", "no_items"}

------------------------------------------------------------------------------
(* Two calls of fetch_ebay_sold_items on the same marketplace pages          *)

\* the pages a script of the marketplace can hold: listings as keys of
\* Listings with the pagination link, or one of the three ways a request ends
\* the page loop
ScriptPages ==
  { [kind |-> "items", items |-> <<4, 1>>, next |-> TRUE],
    [kind |-> "items", items |-> <<1, 4>>, next |-> FALSE],
    [kind |-> "items", items |-> <<2>>, next |-> TRUE],
    [kind |-> "items", items |-> <<6, 1>>, next |-> TRUE],
    [kind |-> "items", items |-> <<3, 6>>, next |-> FALSE],
    [kind |-> "items", items |-> <<7, 1>>, next |-> TRUE],
    [kind |-> "items", items |-> <<1, 7>>, next |-> FALSE],
    [kind |-> "error", items |-> <<>>, next |-> FALSE],
    [kind |-> "timeout", items |-> <<>>, next |-> FALSE],
    [kind |-> "no_items", items |-> <<>>, next |-> FALSE] }

\* the pages of a script
MaxScriptPages == 2

Scripts == SeqsUpTo(ScriptPages, MaxScriptPages) \ {<<>>}

\* the marketplace serves page number p of every search from the same script,
\* in the first call and in the second
TwiceInit ==
  /\ ScraperInit
  /\ AppInit
  /\ script \in {Some(sc) : sc \in Scripts}
  /\ run = 1
  /\ first_files = <<>>
  /\ arg = <<>>
  /\ ret = <<>>

\* the files the call has written, each with the rows it holds
WrittenFiles ==
  [i \in DOMAIN saved_files |->
     [key |-> saved_files[i], value |-> ValueOf(files, saved_files[i])]]

\* lines 181-195 once more: the caller runs fetch_ebay_sold_items again with
\* the same set numbers, after the first call has returned or raised;
\* setup_driver hands out the driver that is there or creates one
CallAgain ==
  /\ pc \in {"returned", "raised"}
  /\ run = 1
  /\ run' = 2
  /\ first_files' = WrittenFiles
  /\ driver' = Some("chrome")
  /\ all_results' = <<>>
  /\ saved_files' = <<>>
  /\ si' = 1
  /\ EnterSet
  /\ returned' = "pending"
  /\ served' = 0
  /\ cutoffs' = {}
  /\ pc' = "while"
  /\ UNCHANGED <<now, set_numbers, files, pageVars, helperVars, appVars, script>>

\* datetime.now() gives the same instant throughout: no Tick
TwiceNext ==
  \/ Call
  \/ CallAgain
  \/ WhileExit
  \/ FetchError
  \/ FetchTimeout
  \/ FetchNoItems
  \/ FetchItems
  \/ ProcessItem
  \/ EndPage
  \/ ProcessResults

SpecTwice == TwiceInit /\ [][TwiceNext]_vars

\* two file paths that differ at most in the timestamp
SameButTimestamp(a, b) ==
  [a EXCEPT !.current_time = 0] = [b EXCEPT !.current_time = 0]

SameFiles(fa, fb) ==
  /\ Len(fa) = Len(fb)
  /\ \A i \in DOMAIN fa :
        /\ SameButTimestamp(fa[i].key, fb[i].key)
        /\ fa[i].value = fb[i].value

\* C20: running the pipeline twice on the same sequence of marketplace pages
\* with the same now writes files with the same rows in the same order; the
\* file names differ at most in their timestamp.
C20_SecondRunSameFiles ==
  (run = 2 /\ pc \in {"returned", "raised"}) => SameFiles(first_files, WrittenFiles)

\* the second call has returned after a first one that wrote a file of two
\* rows or more
C20_Witness ==
  /\ run = 2
  /\ pc = "returned"
  /\ \E i \in DOMAIN first_files : Len(first_files[i].value) >= 2

------------------------------------------------------------------------------
(* The checks on one listing                                                 *)

\* the listing is the promotional card: its title is "Shop on eBay"
IsPlaceholder(item) == ~IsNone(item.title) /\ Strip(Get(item.title)) = ShopOnEbay

\* the listing the for loop takes next when the marketplace follows a script
NextItem == Listings[ScriptPage(page).items[idx + 1]]

StartsWith(t, a) == Len(a) <= Len(t) /\ SubSeq(t, 1, Len(a)) = a

\* the digit strings of the whole part and of the decimals of a marked amount
AmountDigits == SeqsUpTo({"0", "1", "9"}, AmountFracDigits) \ {<<>>}

\* the amount a marked text names, in units of 1 / AmountScale
MarkedValue(p) ==
  ToInt(p.int) * AmountScale + ToInt(p.frac) * Pow10(AmountFracDigits - Len(p.frac))

\* C22: parse_price on a currency marker followed by an amount with a decimal
\* comma returns that amount, whole part and decimals ('EUR 10,19' gives
\* 10.19): marker and blanks are stripped and the comma is read as the
\* decimal point.
C22_MarkedAmountIsReturned ==
  (ret # <<>> /\ arg # None) =>
    \A h \in [marker : {"EUR", "€"}, lead : {<<>>, <<" ">>}, gap : {<<>>, <<" ">>}] :
       StartsWith(arg[1], h.lead \o <<h.marker>> \o h.gap) =>
         \A int \in AmountDigits :
            StartsWith(arg[1], h.lead \o <<h.marker>> \o h.gap \o int \o <<",">>) =>
              \A frac \in AmountDigits :
                 LET p == [marker |-> h.marker, lead |-> h.lead, gap |-> h.gap,
                           int |-> int, frac |-> frac]
                 IN  arg = Some(MarkedText(p)) => ret[1] = MarkedValue(p)

\* parse_price has returned the amount of a marked text with decimals
C22_Witness ==
  /\ ret # <<>>
  /\ \E p \in MarkedAmounts :
        /\ arg = Some(MarkedText(p))
        /\ ToInt(p.frac) > 0
        /\ ret[1] = MarkedValue(p)

------------------------------------------------------------------------------
(* The replacement pass of parse_date on its own: each German month token   *)
(* of the table, alone or inside a sold date                                *)

\* what stands before and after the month in a sold-date text
MonthContexts ==
  [before : {<<>>, <<"1", ".", " ">>, <<"1", "5", ".", " ">>},
   after : {<<>>, <<" ", "2", "0", "2", "4">>}]

MonthInputs ==
  {[text |-> c.before \o GermanToEnglish[k][1] \o c.after, k |-> k] :
     k \in DOMAIN GermanToEnglish, c \in MonthContexts}

MonthsInit ==
  /\ ScraperInit
  /\ AppInit
  /\ MarketInit
  /\ arg \in MonthInputs
  /\ ret = <<>>

\* lines 137-138 applied to the text
ApplyReplaceMonths ==
  /\ ret = <<>>
  /\ ret' = <<ReplaceMonths(arg.text, 1)>>
  /\ UNCHANGED <<programVars, arg>>

SpecMonths == MonthsInit /\ [][ApplyReplaceMonths]_vars

\* the text s holds the word w
Contains(s, w) ==
  \E i \in 1..(Len(s) - Len(w) + 1) : SubSeq(s, i, i + Len(w) - 1) = w

\* C23: for every German month token of the table, abbreviated or full, the
\* replacement pass turns a text containing the token into a text containing
\* the English name the table gives for it ('Oktober' becomes 'October',
\* 'März' becomes 'March', 'Dezember' becomes 'December').
C23_MonthBecomesEnglish ==
  ret # <<>> => Contains(ret[1], GermanToEnglish[arg.k][2])

\* C24: is_valid_title allows only one number of the target's digit length: a
\* title with two or more digit runs of that length is rejected, also when
\* every one of them equals the target.
C24_TwoNumbersRejected ==
  (ret # <<>> /\ Cardinality(RunsOfLength(arg.title, Len(arg.target_set))) >= 2)
    => ret[1] = FALSE

\* a title that names the target twice, and nothing else of its length, has
\* been rejected
C24_Witness ==
  /\ ret = <<FALSE>>
  /\ Cardinality(RunsOfLength(arg.title, Len(arg.target_set))) >= 2
  /\ \A r \in RunsOfLength(arg.title, Len(arg.target_set)) :
        SubSeq(arg.title, r[1], r[2]) = arg.target_set

------------------------------------------------------------------------------
(* The page loop under a marketplace that may go on serving pages            *)

\* pages of listings that no set number's checks accept, with the link to the
\* next page: the promotional card, a listing without title, three stale sales
RepeatingPages ==
  { [kind |-> "items", items |-> <<7>>, next |-> TRUE],
    [kind |-> "items", items |-> <<8>>, next |-> TRUE],
    [kind |-> "items", items |-> <<3, 3, 3>>, next |-> TRUE] }

\* the marketplace serves the same page under every page number
RepeatingScripts == {[p \in 1..PageCap |-> pg] : pg \in RepeatingPages}

\* pages of a marketplace that comes to an end: with and without the link to
\* the next page, with an accepted sale and without, and the three breaks
EndingPages ==
  { [kind |-> "items", items |-> <<3, 4>>, next |-> TRUE],
    [kind |-> "items", items |-> <<4>>, next |-> FALSE],
    [kind |-> "items", items |-> <<4, 3, 3, 3, 4>>, next |-> TRUE],
    [kind |-> "items", items |-> <<7, 8>>, next |-> FALSE],
    [kind |-> "error", items |-> <<>>, next |-> FALSE],
    [kind |-> "timeout", items |-> <<>>, next |-> FALSE],
    [kind |-> "no_items", items |-> <<>>, next |-> FALSE] }

EndingScripts == SeqsUpTo(EndingPages \cup RepeatingPages, MaxScriptPages) \ {<<>>}

PagingInit ==
  /\ ScraperInit
  /\ AppInit
  /\ script \in {Some(sc) : sc \in EndingScripts \cup RepeatingScripts}
  /\ run = 1
  /\ first_files = <<>>
  /\ arg = <<>>
  /\ ret = <<>>

PagingNext ==
  \/ Call
  \/ WhileExit
  \/ FetchError
  \/ FetchTimeout
  \/ FetchNoItems
  \/ FetchItems
  \/ ProcessItem
  \/ EndPage
  \/ ProcessResults

\* the call is one thread of control, which takes its next step whenever it
\* has one; every page request returns or fails
SpecPaging == PagingInit /\ [][PagingNext]_vars /\ WF_vars(PagingNext)

\* C25: every identifier's pagination run eventually reaches DONE (the page
\* loop is left and the identifier's rows are processed): no execution keeps
\* fetching further pages forever.
C25_PaginationEnds == (pc \in {"while", "items", "page_end"}) ~> (pc = "results")

------------------------------------------------------------------------------
(* Two calls with the wall clock running: the files of one set number        *)

LaterNext ==
  \/ Tick
  \/ TwiceNext

SpecLater == TwiceInit /\ [][LaterNext]_vars

\* file > set_files[set_number] and max(csv_files): the order of the names
\* Ebay_Lego_<set number>_<YYYYMMDD>_<YYYYMMDD>_<HHMMSS>.csv of one set number,
\* which is that of the start dates, then the end dates, then the times of day
NameLess(a, b) ==
  LET sa == DaysFromCivil(a.start_date)
      sb == DaysFromCivil(b.start_date)
      ea == DaysFromCivil(a.end_date)
      eb == DaysFromCivil(b.end_date)
  IN  \/ sa < sb
      \/ sa = sb /\ ea < eb
      \/ sa = sb /\ ea = eb /\ a.current_time < b.current_time

\* C26: among the files saved for one identifier, the one with the greatest
\* file name is the one written most recently: a file the first call wrote
\* has a smaller name than the file a later call writes for that identifier.
C26_GreatestNameIsLatest ==
  (run = 2 /\ pc = "returned") =>
    \A i \in DOMAIN first_files : \A j \in DOMAIN saved_files :
       (first_files[i].key.set_number = saved_files[j].set_number
          /\ first_files[i].key # saved_files[j])
         => NameLess(first_files[i].key, saved_files[j])

\* every row of the collection belongs to set number k
RowsOf(rows, k) ==
  \A i \in DOMAIN rows : rows[i].SetNumber = k /\ is_valid_title(rows[i].Title, k)

\* C27: in a batch run every record of identifier k's collection, and of its
\* file, has 'Set Number' k and a title that passes is_valid_title for k; the
\* accumulator starts empty for each identifier, so no record fetched for one
\* identifier reaches another one's collection or file.
C27_RecordsStayWithTheirIdentifier ==
  /\ [](/\ \A e \in DOMAIN all_results : RowsOf(all_results[e].value, all_results[e].key)
        /\ \A e \in DOMAIN files : RowsOf(files[e].value, files[e].key.set_number)
        /\ si \in DOMAIN set_numbers => RowsOf(set_results, set_numbers[si]))
  /\ [][si' # si => set_results' = <<>>]_vars

\* a batch of two identifiers has returned a collection for each
C27_Witness ==
  /\ pc = "returned"
  /\ Len(set_numbers) = 2
  /\ Len(all_results) = 2
  /\ \A e \in DOMAIN all_results : all_results[e].value # <<>>

------------------------------------------------------------------------------
(* Two /scrape requests handled at the same time                           *)
(* app.py, lines 8-12 and 67-113: Flask's server runs each request in a    *)
(* thread of its own, and every request uses the one module-level          *)
(* results_queue                                                           *)

\* the requests the server handles at the same time
MaxHandlers == 2

\* the statuses scrape_set can put in the queue (ScrapeSetStatus)
ScrapeSetStatuses == {"no_results", "error"}

\* the locals of scrape() when the request arrives
NewHandler ==
  [pc |-> "idle", set_numbers |-> <<>>, valid_numbers |-> <<>>,
   invalid_numbers |-> <<>>, threads |-> <<>>, results |-> <<>>, response |-> None]

ConcurrentInit ==
  /\ ScraperInit
  /\ MarketInit
  /\ arg = <<>>
  /\ ret = <<>>
  /\ app_pc = "idle"
  /\ request = <<>>
  /\ valid_numbers = <<>>
  /\ invalid_numbers = <<>>
  /\ threads = <<>>
  /\ sessions = <<>>
  /\ stocked = {}
  /\ results_queue = <<>>
  /\ response = None
  /\ handlers = [h \in 1..MaxHandlers |-> NewHandler]

\* what the steps of two concurrent requests leave alone
handlerFrame == <<scraperVars, helperVars, runVars, app_pc, request, valid_numbers,
                  invalid_numbers, threads, sessions, stocked, response>>

\* app.py, lines 69-85: validate the tokens; answer at once when none is valid
HandlerValidate(h) ==
  /\ handlers[h].pc = "idle"
  /\ \E tokens \in Requests :
       LET valid == SelectSeq(tokens, validate_set_number)
           invalid == SelectSeq(tokens, IsInvalidNumber)
       IN  handlers' = [handlers EXCEPT
                          ![h].set_numbers = tokens,
                          ![h].valid_numbers = valid,
                          ![h].invalid_numbers = invalid,
                          ![h].response = IF valid = <<>>
                                            THEN Some([status |-> "error", results |-> <<>>,
                                                       invalid_numbers |-> invalid])
                                            ELSE None,
                          ![h].pc = IF valid = <<>> THEN "responded" ELSE "clear"]
  /\ UNCHANGED <<results_queue, handlerFrame>>

\* app.py, line 88: while not results_queue.empty()
HandlerClearTest(h) ==
  /\ handlers[h].pc = "clear"
  /\ handlers' = [handlers EXCEPT ![h].pc = IF results_queue = <<>> THEN "start"
                                            ELSE "clear_get"]
  /\ UNCHANGED <<results_queue, handlerFrame>>

\* app.py, line 89: results_queue.get(), which waits while the queue is empty
HandlerClearGet(h) ==
  /\ handlers[h].pc = "clear_get"
  /\ results_queue # <<>>
  /\ results_queue' = Tail(results_queue)
  /\ handlers' = [handlers EXCEPT ![h].pc = "clear"]
  /\ UNCHANGED handlerFrame

\* app.py, lines 92-96: one thread per valid number is started
HandlerStart(h) ==
  /\ handlers[h].pc = "start"
  /\ handlers' = [handlers EXCEPT
                    ![h].threads = [i \in DOMAIN handlers[h].valid_numbers |-> "running"],
                    ![h].pc = "join"]
  /\ UNCHANGED <<results_queue, handlerFrame>>

\* app.py, lines 18-61: scrape_set ends by putting one outcome for its number
\* in the queue, whichever way the fetch went
WorkerPut(h, t) ==
  /\ handlers[h].pc = "join"
  /\ handlers[h].threads[t] = "running"
  /\ \E status \in ScrapeSetStatuses :
       results_queue' = Append(results_queue,
                               [set_number |-> handlers[h].valid_numbers[t],
                                status |-> status,
                                filepath |-> None, total_items |-> 0])
  /\ handlers' = [handlers EXCEPT ![h].threads[t] = "done"]
  /\ UNCHANGED handlerFrame

\* app.py, lines 99-100: thread.join() has returned for every thread
HandlerJoin(h) ==
  /\ handlers[h].pc = "join"
  /\ \A t \in DOMAIN handlers[h].threads : handlers[h].threads[t] = "done"
  /\ handlers' = [handlers EXCEPT ![h].pc = "collect"]
  /\ UNCHANGED <<results_queue, handlerFrame>>

\* app.py, lines 104 and 109-113: while not results_queue.empty(); when it is
\* empty the results collected and the invalid numbers are returned
HandlerCollectTest(h) ==
  /\ handlers[h].pc = "collect"
  /\ handlers' = [handlers EXCEPT
                    ![h].response = IF results_queue = <<>>
                                      THEN Some([status |-> "success",
                                                 results |-> handlers[h].results,
                                                 invalid_numbers |-> handlers[h].invalid_numbers])
                                      ELSE None,
                    ![h].pc = IF results_queue = <<>> THEN "responded" ELSE "collect_get"]
  /\ UNCHANGED <<results_queue, handlerFrame>>

\* app.py, line 105: results.append(results_queue.get()); get() waits while
\* the queue is empty
HandlerCollectGet(h) ==
  /\ handlers[h].pc = "collect_get"
  /\ results_queue # <<>>
  /\ handlers' = [handlers EXCEPT ![h].results = Append(@, Head(results_queue)),
                                  ![h].pc = "collect"]
  /\ results_queue' = Tail(results_queue)
  /\ UNCHANGED handlerFrame

ConcurrentNext ==
  \/ \E h \in DOMAIN handlers : HandlerValidate(h)
  \/ \E h \in DOMAIN handlers : HandlerClearTest(h)
  \/ \E h \in DOMAIN handlers : HandlerClearGet(h)
  \/ \E h \in DOMAIN handlers : HandlerStart(h)
  \/ \E h \in DOMAIN handlers : \E t \in DOMAIN handlers[h].threads : WorkerPut(h, t)
  \/ \E h \in DOMAIN handlers : HandlerJoin(h)
  \/ \E h \in DOMAIN handlers : HandlerCollectTest(h)
  \/ \E h \in DOMAIN handlers : HandlerCollectGet(h)

SpecConcurrent == ConcurrentInit /\ [][ConcurrentNext]_vars

\* how many outcomes of the sequence are for set number k
OutcomesFor(outcomes, k) ==
  Cardinality({i \in DOMAIN outcomes : outcomes[i].set_number = k})

\* how many times set number k stands in the sequence of numbers
TimesIn(numbers, k) ==
  Cardinality({i \in DOMAIN numbers : numbers[i] = k})

\* C28: a /scrape request that answers with results returns exactly the
\* outcomes of its own valid set numbers, one for each, also while another
\* request is being handled: none is missing and none is of another request.
C28_OwnOutcomesOnly ==
  \A h \in DOMAIN handlers :
     (handlers[h].pc = "responded" /\ handlers[h].valid_numbers # <<>>) =>
        \A k \in Tokens :
           OutcomesFor(handlers[h].response[1].results, k)
             = TimesIn(handlers[h].valid_numbers, k)

====
